---------------------------- MODULE Spec2Model ----------------------------
(***************************************************************************)
(* A model of src/Schools.py: the pipeline that reads the NYC-schools      *)
(* tables, builds the DBN key, derives numeric features, condenses the     *)
(* tables, merges them on DBN and imputes missing values.                  *)
(*                                                                         *)
(* A table is a sequence of rows; a row is a record whose DBN field is a   *)
(* sequence of characters and whose other fields are cells.  The program   *)
(* is one straight line of statements; pc names the next statement.        *)
(***************************************************************************)
EXTENDS Integers, Sequences, FiniteSets, TLC

VARIABLES
    pc,          \* the next statement of the script
    err,         \* the exception that ended the script, or "none"
    data,        \* the dictionary `data`: table name -> table
    all_survey,  \* survey_all.txt as read
    d75_survey,  \* survey_d75.txt as read
    class_size,  \* the local `class_size` of the condensing cell
    combined     \* the merged table

vars == <<pc, err, data, all_survey, d75_survey, class_size, combined>>

---------------------------------------------------------------------------
(* Cells.  A cell is a string, a number (a fraction n/d in lowest terms,   *)
(* d > 0) or missing (NaN).                                                *)

NaN == [k |-> "nan", s |-> <<>>, n |-> 0, d |-> 0]

Str(s) == [k |-> "str", s |-> s, n |-> 0, d |-> 0]

IsNaN(c) == c.k = "nan"

IsNum(c) == c.k = "num"

Abs(x) == IF x < 0 THEN -x ELSE x

RECURSIVE GCD(_, _)
GCD(a, b) == IF b = 0 THEN a ELSE GCD(b, a % b)

\* the number n/d (d # 0) as a cell, in lowest terms
Frac(n, d) ==
    LET g == GCD(Abs(n), Abs(d))
        sg == IF d < 0 THEN -1 ELSE 1
    IN  [k |-> "num", s |-> <<>>, n |-> sg * (n \div g), d |-> sg * (d \div g)]

Num(n) == Frac(n, 1)

\* addition that skips a missing operand, as a sum over the row would
AddCellSkipNaN(a, b) ==
    IF IsNum(a) /\ IsNum(b)
    THEN Frac(a.n * b.d + b.n * a.d, a.d * b.d)
    ELSE IF IsNum(a) THEN a
    ELSE IF IsNum(b) THEN b
    ELSE NaN

\* float addition: NaN if either operand is NaN
AddCell(a, b) ==
    IF IsNum(a) /\ IsNum(b)
    THEN Frac(a.n * b.d + b.n * a.d, a.d * b.d)
    ELSE NaN

---------------------------------------------------------------------------
(* Text.                                                                   *)

Digits == <<"0", "1", "2", "3", "4", "5", "6", "7", "8", "9">>

IsDigit(ch) == \E i \in 1..10 : Digits[i] = ch

DigitVal(ch) == (CHOOSE i \in 1..10 : Digits[i] = ch) - 1

\* str(num) of a non-negative int
RECURSIVE PyStr(_)
PyStr(num) ==
    IF num < 10 THEN <<Digits[num + 1]>>
    ELSE PyStr(num \div 10) \o <<Digits[(num % 10) + 1]>>

\* s without every occurrence of the character ch: s.replace(ch, "")
RECURSIVE Remove(_, _)
Remove(s, ch) ==
    IF s = <<>> THEN <<>>
    ELSE IF Head(s) = ch THEN Remove(Tail(s), ch)
    ELSE <<Head(s)>> \o Remove(Tail(s), ch)

\* s.strip(): leading and trailing blanks removed
RECURSIVE LStrip(_)
LStrip(s) ==
    IF s # <<>> /\ Head(s) = " " THEN LStrip(Tail(s)) ELSE s

RECURSIVE RStrip(_)
RStrip(s) ==
    IF s # <<>> /\ s[Len(s)] = " " THEN RStrip(SubSeq(s, 1, Len(s) - 1)) ELSE s

Strip(s) == RStrip(LStrip(s))

\* the positions of the commas of s
Commas(s) == {i \in 1..Len(s) : s[i] = ","}

Min(S) == CHOOSE x \in S : \A y \in S : x <= y

Max(S) == CHOOSE x \in S : \A y \in S : x >= y

\* s.split(",")[0]
SplitFirst(s) ==
    IF Commas(s) = {} THEN s ELSE SubSeq(s, 1, Min(Commas(s)) - 1)

\* s.split(",")[1], for s with at least one comma
SplitSecond(s) ==
    LET c1 == Min(Commas(s))
        rest == {i \in Commas(s) : i > c1}
        c2 == IF rest = {} THEN Len(s) + 1 ELSE Min(rest)
    IN  SubSeq(s, c1 + 1, c2 - 1)

\* the value of a string of digits
RECURSIVE DigitsVal(_)
DigitsVal(s) ==
    IF s = <<>> THEN 0
    ELSE 10 * DigitsVal(SubSeq(s, 1, Len(s) - 1)) + DigitVal(s[Len(s)])

RECURSIVE Pow10(_)
Pow10(e) == IF e = 0 THEN 1 ELSE 10 * Pow10(e - 1)

\* pd.to_numeric(errors="coerce") on one string: blanks around it apart, an
\* optional sign, digits with at most one decimal point and at least one
\* digit; anything else is NaN
ParseNumber(s) ==
    LET t == Strip(s)
        neg == t # <<>> /\ Head(t) = "-"
        body == IF t # <<>> /\ Head(t) \in {"-", "+"} THEN Tail(t) ELSE t
        dots == {i \in 1..Len(body) : body[i] = "."}
        mant == Remove(body, ".")
        ok == /\ Cardinality(dots) <= 1
              /\ mant # <<>>
              /\ \A i \in 1..Len(mant) : IsDigit(mant[i])
        scale == IF dots = {} THEN 0 ELSE Len(body) - Min(dots)
        v == DigitsVal(mant)
    IN  IF ok THEN Frac(IF neg THEN -v ELSE v, Pow10(scale)) ELSE NaN

\* pd.to_numeric(errors="coerce") on one cell
ToNumeric(c) == IF c.k = "str" THEN ParseNumber(c.s) ELSE c

\* The matches of the pattern "\(.+, .+\)" that start at position i of loc:
\* the pairs <<j, k>> with the ", " at j and the closing parenthesis at k.
MatchesAt(loc, i) ==
    IF loc[i] # "(" THEN {}
    ELSE {jk \in (1..Len(loc)) \X (1..Len(loc)) :
            /\ jk[1] >= i + 2
            /\ jk[1] + 1 <= Len(loc)
            /\ loc[jk[1]] = ","
            /\ loc[jk[1] + 1] = " "
            /\ jk[2] >= jk[1] + 3
            /\ loc[jk[2]] = ")"}

\* re.findall("\(.+, .+\)", loc)[0..]: <<>> when nothing matches, else the
\* one-element list of the first match (leftmost start, both .+ greedy).
FindAllFirst(loc) ==
    LET starts == {i \in 1..Len(loc) : MatchesAt(loc, i) # {}}
    IN  IF starts = {} THEN <<>>
        ELSE LET i == Min(starts)
                 j == Max({jk[1] : jk \in MatchesAt(loc, i)})
                 k == Max({jk[2] : jk \in {m \in MatchesAt(loc, i) : m[1] = j}})
             IN  <<SubSeq(loc, i, k)>>

\* find_lat / find_lon on one cell: the string found, or the exception raised
find_lat(loc) ==
    IF loc.k # "str" THEN [exc |-> "TypeError", val |-> <<>>]
    ELSE LET coords == FindAllFirst(loc.s)
         IN  IF coords = <<>> THEN [exc |-> "IndexError", val |-> <<>>]
             ELSE [exc |-> "none", val |-> Remove(SplitFirst(coords[1]), "(")]

find_lon(loc) ==
    IF loc.k # "str" THEN [exc |-> "TypeError", val |-> <<>>]
    ELSE LET coords == FindAllFirst(loc.s)
         IN  IF coords = <<>> THEN [exc |-> "IndexError", val |-> <<>>]
             ELSE [exc |-> "none",
                   val |-> Strip(Remove(SplitSecond(coords[1]), ")"))]

\* pad_csd with the length test off by one: nothing is ever padded
pad_csd_unpadded(num) ==
    LET string_representation == PyStr(num)
    IN  IF Len(string_representation) > 0
        THEN string_representation
        ELSE <<"0">> \o string_representation

\* pad_csd
pad_csd(num) ==
    LET string_representation == PyStr(num)
    IN  IF Len(string_representation) > 1
        THEN string_representation
        ELSE <<"0">> \o string_representation

---------------------------------------------------------------------------
(* Tables.  Every field of a row but DBN is a cell.  Of each group of      *)
(* columns the script treats alike, the model keeps one: one SAT school    *)
(* attribute, one AP count, one class-size metric, one survey rating.      *)

\* the table t with column c set, row by row, to f[i]
WithColumn(t, c, f) == [i \in 1..Len(t) |-> (c :> f[i]) @@ t[i]]

\* the columns of a table the script coerces with pd.to_numeric
CoerceColumns(t, cs) ==
    [i \in 1..Len(t) |->
        [c \in DOMAIN t[i] |-> IF c \in cs THEN ToNumeric(t[i][c]) ELSE t[i][c]]]

\* a mask that keeps every row
RowsWhereAll(t, c, v) == t

\* t[t[c] == v]: the rows whose cell c equals v, in order
RECURSIVE RowsWhere(_, _, _)
RowsWhere(t, c, v) ==
    IF t = <<>> THEN <<>>
    ELSE (IF Head(t)[c] = v THEN <<Head(t)>> ELSE <<>>) \o RowsWhere(Tail(t), c, v)

\* the rows of t whose DBN is dbn, in order
RECURSIVE RowsOf(_, _)
RowsOf(t, dbn) ==
    IF t = <<>> THEN <<>>
    ELSE (IF Head(t).DBN = dbn THEN <<Head(t)>> ELSE <<>>) \o RowsOf(Tail(t), dbn)

DBNs(t) == {t[i].DBN : i \in 1..Len(t)}

\* the order of characters in a DBN (their code points)
CharOrder ==
    <<"0", "1", "2", "3", "4", "5", "6", "7", "8", "9", "K", "M", "Q", "X">>

Ord(ch) == CHOOSE i \in 1..Len(CharOrder) : CharOrder[i] = ch

\* a < b as Python strings
RECURSIVE StrLess(_, _)
StrLess(a, b) ==
    IF b = <<>> THEN FALSE
    ELSE IF a = <<>> THEN TRUE
    ELSE IF Head(a) = Head(b) THEN StrLess(Tail(a), Tail(b))
    ELSE Ord(Head(a)) < Ord(Head(b))

\* the strings of S in ascending order
RECURSIVE Sorted(_)
Sorted(S) ==
    IF S = {} THEN <<>>
    ELSE LET lo == CHOOSE x \in S : \A y \in S \ {x} : StrLess(x, y)
         IN  <<lo>> \o Sorted(S \ {lo})

\* the sum and the count of the cells of a sequence that are not NaN
RECURSIVE SumCells(_)
SumCells(cells) ==
    IF cells = <<>> THEN Num(0)
    ELSE IF IsNum(Head(cells)) THEN AddCell(Head(cells), SumCells(Tail(cells)))
    ELSE SumCells(Tail(cells))

RECURSIVE CountCells(_)
CountCells(cells) ==
    IF cells = <<>> THEN 0
    ELSE (IF IsNum(Head(cells)) THEN 1 ELSE 0) + CountCells(Tail(cells))

\* the mean, NaN skipped; NaN when nothing is left
MeanCells(cells) ==
    IF CountCells(cells) = 0 THEN NaN
    ELSE LET total == SumCells(cells)
         IN  Frac(total.n, total.d * CountCells(cells))

Column(t, c) == [i \in 1..Len(t) |-> t[i][c]]

\* the numeric columns the class-size table is read with
ClassSizeNumeric == {"CSD", "AVERAGE_CLASS_SIZE"}

\* groupby-mean that keeps the first value of every column it cannot average
GroupByMeanKeepingAll(t) ==
    LET keys == Sorted(DBNs(t))
    IN  [i \in 1..Len(keys) |->
            ("DBN" :> keys[i]) @@
            [c \in DOMAIN t[1] \ {"DBN"} |->
                IF c \in ClassSizeNumeric
                THEN MeanCells(Column(RowsOf(t, keys[i]), c))
                ELSE RowsOf(t, keys[i])[1][c]]]

\* t.groupby("DBN").agg(np.mean) then reset_index: one row per DBN, keys
\* ascending, each numeric column the mean of the group; the other columns
\* are dropped by the aggregation
GroupByMean(t) ==
    LET keys == Sorted(DBNs(t))
    IN  [i \in 1..Len(keys) |->
            ("DBN" :> keys[i]) @@
            [c \in ClassSizeNumeric |-> MeanCells(Column(RowsOf(t, keys[i]), c))]]

\* the columns each table brings to the merge, DBN apart
MergeColumns ==
    [ap_2010 |-> {"AP_Test_Takers"},
     graduation |-> {"Cohort", "Demographic"},
     class_size |-> ClassSizeNumeric,
     demographics |-> {"schoolyear"},
     survey |-> {"saf_s_11"},
     hs_directory |-> {"dbn", "Location_1", "lat", "lon"}]

\* a merge that keeps only the matched rows, whatever `how` says
RECURSIVE MergeMatchedOnly(_, _, _, _)
MergeMatchedOnly(left, right, cols, how) ==
    IF left = <<>> THEN <<>>
    ELSE LET l == Head(left)
             ms == RowsOf(right, l.DBN)
         IN  [i \in 1..Len(ms) |-> l @@ [c \in cols |-> ms[i][c]]]
             \o MergeMatchedOnly(Tail(left), right, cols, how)

\* left.merge(right, on="DBN", how=how): for each left row in order, one row
\* per right row of the same DBN; with none, the left row with the right
\* columns missing (how = "left") or no row (how = "inner")
RECURSIVE Merge(_, _, _, _)
Merge(left, right, cols, how) ==
    IF left = <<>> THEN <<>>
    ELSE LET l == Head(left)
             ms == RowsOf(right, l.DBN)
             here == IF ms = <<>>
                     THEN IF how = "left"
                          THEN <<l @@ [c \in cols |-> NaN]>>
                          ELSE <<>>
                     ELSE [i \in 1..Len(ms) |-> l @@ [c \in cols |-> ms[i][c]]]
         IN  here \o Merge(Tail(left), right, cols, how)

\* the columns of a non-empty table that hold cells
CellColumns(t) == IF t = <<>> THEN {} ELSE DOMAIN t[1] \ {"DBN"}

\* means taken per source table: those of the SAT columns over sat_results
\* as it was before the joins
ColumnMeansPerSource(t) ==
    [c \in {x \in CellColumns(t) : \A i \in 1..Len(t) : t[i][x].k # "str"} |->
        IF c \in CellColumns(data["sat_results"])
        THEN MeanCells(Column(data["sat_results"], c))
        ELSE MeanCells(Column(t, c))]

\* combined.mean(): the mean of each column that holds no string
ColumnMeans(t) ==
    [c \in {x \in CellColumns(t) : \A i \in 1..Len(t) : t[i][x].k # "str"} |->
        MeanCells(Column(t, c))]

\* t.fillna(means): a missing cell of a column with a mean takes the mean
FillNaMeans(t, means) ==
    [i \in 1..Len(t) |->
        [c \in DOMAIN t[i] |->
            IF c # "DBN" /\ IsNaN(t[i][c]) /\ c \in DOMAIN means
            THEN means[c] ELSE t[i][c]]]

\* a zero fill that also overwrites every cell that is not a number
FillNaZeroNonNumeric(t) ==
    [i \in 1..Len(t) |->
        [c \in DOMAIN t[i] |->
            IF c # "DBN" /\ ~IsNum(t[i][c]) THEN Num(0) ELSE t[i][c]]]

\* t.fillna(0)
FillNaZero(t) ==
    [i \in 1..Len(t) |->
        [c \in DOMAIN t[i] |->
            IF c # "DBN" /\ IsNaN(t[i][c]) THEN Num(0) ELSE t[i][c]]]

get_first_two_chars(dbn) == SubSeq(dbn, 1, 2)

---------------------------------------------------------------------------
(* The script, statement by statement.                                     *)

SatCols == {"SAT_Math", "SAT_Reading", "SAT_Writing"}

APCols == {"AP_Test_Takers"}

survey_fields == {"DBN", "saf_s_11"}

to_merge == <<"class_size", "demographics", "survey", "hs_directory">>

MergePc ==
    <<"merge_class_size", "merge_demographics", "merge_survey",
      "merge_hs_directory">>

\* data with table name set to t (the key is created when absent)
Put(name, t) == (name :> t) @@ data

\* survey = pd.concat([all_survey, d75_survey]); survey["DBN"] = survey["dbn"];
\* survey = survey.loc[:, survey_fields]; data["survey"] = survey
ConcatSurvey ==
    /\ pc = "survey"
    /\ LET survey == all_survey \o d75_survey
           keyed == [i \in 1..Len(survey) |-> ("DBN" :> survey[i]["dbn"].s) @@ survey[i]]
       IN  data' = Put("survey",
                       [i \in 1..Len(keyed) |-> [c \in survey_fields |-> keyed[i][c]]])
    /\ pc' = "copy_dbn"
    /\ UNCHANGED <<err, all_survey, d75_survey, class_size, combined>>

\* data["hs_directory"]["DBN"] = data["hs_directory"]["dbn"]
CopyDBN ==
    /\ pc = "copy_dbn"
    /\ LET hs == data["hs_directory"]
       IN  data' = Put("hs_directory",
                       [i \in 1..Len(hs) |-> ("DBN" :> hs[i]["dbn"].s) @@ hs[i]])
    /\ pc' = "pad_csd"
    /\ UNCHANGED <<err, all_survey, d75_survey, class_size, combined>>

\* data["class_size"]["padded_csd"] = data["class_size"]["CSD"].apply(pad_csd)
PadCsd ==
    /\ pc = "pad_csd"
    /\ LET cs == data["class_size"]
       IN  data' = Put("class_size",
                       WithColumn(cs, "padded_csd",
                                  [i \in 1..Len(cs) |-> Str(pad_csd(cs[i]["CSD"].n))]))
    /\ pc' = "build_dbn"
    /\ UNCHANGED <<err, all_survey, d75_survey, class_size, combined>>

\* data["class_size"]["DBN"] = padded_csd + SCHOOL CODE
BuildDBN ==
    /\ pc = "build_dbn"
    /\ LET cs == data["class_size"]
       IN  data' = Put("class_size",
                       WithColumn(cs, "DBN",
                                  [i \in 1..Len(cs) |->
                                      cs[i]["padded_csd"].s \o cs[i]["SCHOOL_CODE"].s]))
    /\ pc' = "sat_numeric"
    /\ UNCHANGED <<err, all_survey, d75_survey, class_size, combined>>

\* for c in cols: sat_results[c] = pd.to_numeric(sat_results[c], errors="coerce")
ToNumericSat ==
    /\ pc = "sat_numeric"
    /\ data' = Put("sat_results", CoerceColumns(data["sat_results"], SatCols))
    /\ pc' = "sat_score"
    /\ UNCHANGED <<err, all_survey, d75_survey, class_size, combined>>

\* sat_results['sat_score'] = cols[0] + cols[1] + cols[2]
SumSat ==
    /\ pc = "sat_score"
    /\ LET sat == data["sat_results"]
       IN  data' = Put("sat_results",
                       WithColumn(sat, "sat_score",
                                  [i \in 1..Len(sat) |->
                                      AddCell(AddCell(sat[i]["SAT_Math"],
                                                      sat[i]["SAT_Reading"]),
                                              sat[i]["SAT_Writing"])]))
    /\ pc' = "find_lat"
    /\ UNCHANGED <<err, all_survey, d75_survey, class_size, combined>>

\* the exception Series.apply(f) ends with: that of the first row f raises on
FirstExc(res) ==
    LET bad == {i \in 1..Len(res) : res[i].exc # "none"}
    IN  IF bad = {} THEN "none" ELSE res[Min(bad)].exc

\* hs_directory["lat"] = hs_directory["Location 1"].apply(find_lat)
FindLat ==
    /\ pc = "find_lat"
    /\ LET hs == data["hs_directory"]
           res == [i \in 1..Len(hs) |-> find_lat(hs[i]["Location_1"])]
       IN  IF FirstExc(res) = "none"
           THEN /\ data' = Put("hs_directory",
                               WithColumn(hs, "lat", [i \in 1..Len(hs) |-> Str(res[i].val)]))
                /\ pc' = "find_lon"
                /\ err' = err
           ELSE /\ err' = FirstExc(res)
                /\ pc' = "crashed"
                /\ data' = data
    /\ UNCHANGED <<all_survey, d75_survey, class_size, combined>>

\* hs_directory["lon"] = hs_directory["Location 1"].apply(find_lon)
FindLon ==
    /\ pc = "find_lon"
    /\ LET hs == data["hs_directory"]
           res == [i \in 1..Len(hs) |-> find_lon(hs[i]["Location_1"])]
       IN  IF FirstExc(res) = "none"
           THEN /\ data' = Put("hs_directory",
                               WithColumn(hs, "lon", [i \in 1..Len(hs) |-> Str(res[i].val)]))
                /\ pc' = "latlon_numeric"
                /\ err' = err
           ELSE /\ err' = FirstExc(res)
                /\ pc' = "crashed"
                /\ data' = data
    /\ UNCHANGED <<all_survey, d75_survey, class_size, combined>>

\* lat and lon through pd.to_numeric(errors="coerce")
ToNumericLatLon ==
    /\ pc = "latlon_numeric"
    /\ data' = Put("hs_directory", CoerceColumns(data["hs_directory"], {"lat", "lon"}))
    /\ pc' = "filter_grade"
    /\ UNCHANGED <<err, all_survey, d75_survey, class_size, combined>>

GradeBand == Str(<<"0", "9", "-", "1", "2">>)

GenEd == Str(<<"G", "E", "N", " ", "E", "D">>)

\* the columns the class-size table has as read and keyed, and once grouped
RawClassSizeColumns ==
    {"CSD", "SCHOOL_CODE", "GRADE", "PROGRAM_TYPE", "AVERAGE_CLASS_SIZE",
     "padded_csd", "DBN"}

GroupedColumns == {"DBN"} \cup ClassSizeNumeric

\* the columns of t; those of an empty table are given
Columns(t, whenEmpty) == IF t = <<>> THEN whenEmpty ELSE DOMAIN t[1]

\* class_size = data["class_size"]; class_size = class_size[GRADE == "09-12"]
\* run at `from` on a table with the given columns; indexing a column the
\* table does not have raises KeyError
FilterGradeAt(from, whenEmpty, to) ==
    /\ pc = from
    /\ IF "GRADE" \in Columns(data["class_size"], whenEmpty)
       THEN /\ class_size' = RowsWhere(data["class_size"], "GRADE", GradeBand)
            /\ pc' = to
            /\ err' = err
       ELSE /\ class_size' = data["class_size"]
            /\ pc' = "crashed"
            /\ err' = "KeyError"
    /\ UNCHANGED <<data, all_survey, d75_survey, combined>>

FilterGrade == FilterGradeAt("filter_grade", RawClassSizeColumns, "filter_program")

\* class_size = class_size[PROGRAM TYPE == "GEN ED"]
FilterProgram ==
    /\ pc = "filter_program"
    /\ class_size' = RowsWhere(class_size, "PROGRAM_TYPE", GenEd)
    /\ pc' = "group_by"
    /\ UNCHANGED <<err, data, all_survey, d75_survey, combined>>

\* class_size = class_size.groupby("DBN").agg(np.mean); reset_index;
\* data["class_size"] = class_size
GroupBy ==
    /\ pc = "group_by"
    /\ class_size' = GroupByMean(class_size)
    /\ data' = Put("class_size", GroupByMean(class_size))
    /\ pc' = "filter_demographics"
    /\ UNCHANGED <<err, all_survey, d75_survey, combined>>

SchoolYear == 20112012

\* demographics = demographics[schoolyear == 20112012]
FilterDemographics ==
    /\ pc = "filter_demographics"
    /\ data' = Put("demographics",
                   RowsWhere(data["demographics"], "schoolyear", Num(SchoolYear)))
    /\ pc' = "filter_graduation"
    /\ UNCHANGED <<err, all_survey, d75_survey, class_size, combined>>

Cohort2006 == Str(<<"2", "0", "0", "6">>)

TotalCohort == Str(<<"T", "o", "t", "a", "l", " ", "C", "o", "h", "o", "r", "t">>)

\* graduation = graduation[Cohort == "2006"];
\* graduation = graduation[Demographic == "Total Cohort"]
FilterGraduation ==
    /\ pc = "filter_graduation"
    /\ data' = Put("graduation",
                   RowsWhere(RowsWhere(data["graduation"], "Cohort", Cohort2006),
                             "Demographic", TotalCohort))
    /\ pc' = "ap_numeric"
    /\ UNCHANGED <<err, all_survey, d75_survey, class_size, combined>>

\* for col in cols: ap_2010[col] = pd.to_numeric(ap_2010[col], errors="coerce")
ToNumericAP ==
    /\ pc = "ap_numeric"
    /\ data' = Put("ap_2010", CoerceColumns(data["ap_2010"], APCols))
    /\ pc' = "merge_ap"
    /\ UNCHANGED <<err, all_survey, d75_survey, class_size, combined>>

\* combined = data["sat_results"]; combined = combined.merge(ap_2010, how="left")
MergeAP ==
    /\ pc = "merge_ap"
    /\ combined' = Merge(data["sat_results"], data["ap_2010"],
                         MergeColumns["ap_2010"], "left")
    /\ pc' = "merge_graduation"
    /\ UNCHANGED <<err, data, all_survey, d75_survey, class_size>>

\* combined = combined.merge(graduation, how="left")
MergeGraduation ==
    /\ pc = "merge_graduation"
    /\ combined' = Merge(combined, data["graduation"],
                         MergeColumns["graduation"], "left")
    /\ pc' = MergePc[1]
    /\ UNCHANGED <<err, data, all_survey, d75_survey, class_size>>

\* for m in to_merge: combined = combined.merge(data[m], how="inner")
MergeInner ==
    /\ \E i \in 1..Len(to_merge) :
        /\ pc = MergePc[i]
        /\ combined' = Merge(combined, data[to_merge[i]],
                             MergeColumns[to_merge[i]], "inner")
        /\ pc' = IF i < Len(to_merge) THEN MergePc[i + 1] ELSE "fillna_mean"
    /\ UNCHANGED <<err, data, all_survey, d75_survey, class_size>>

\* combined = combined.fillna(combined.mean())
FillMean ==
    /\ pc = "fillna_mean"
    /\ combined' = FillNaMeans(combined, ColumnMeans(combined))
    /\ pc' = "fillna_zero"
    /\ UNCHANGED <<err, data, all_survey, d75_survey, class_size>>

\* combined = combined.fillna(0)
FillZero ==
    /\ pc = "fillna_zero"
    /\ combined' = FillNaZero(combined)
    /\ pc' = "school_dist"
    /\ UNCHANGED <<err, data, all_survey, d75_survey, class_size>>

\* combined["school_dist"] = combined["DBN"].apply(get_first_two_chars)
SchoolDist ==
    /\ pc = "school_dist"
    /\ combined' = WithColumn(combined, "school_dist",
                              [i \in 1..Len(combined) |->
                                  Str(get_first_two_chars(combined[i].DBN))])
    /\ pc' = "done"
    /\ UNCHANGED <<err, data, all_survey, d75_survey, class_size>>

Next ==
    \/ ConcatSurvey \/ CopyDBN \/ PadCsd \/ BuildDBN
    \/ ToNumericSat \/ SumSat
    \/ FindLat \/ FindLon \/ ToNumericLatLon
    \/ FilterGrade \/ FilterProgram \/ GroupBy
    \/ FilterDemographics \/ FilterGraduation
    \/ ToNumericAP
    \/ MergeAP \/ MergeGraduation \/ MergeInner
    \/ FillMean \/ FillZero \/ SchoolDist

---------------------------------------------------------------------------
(* Inputs: the tables as read from the files.                              *)

SatRow(dbn, math, reading, writing, name) ==
    [DBN |-> dbn, SAT_Math |-> math, SAT_Reading |-> reading,
     SAT_Writing |-> writing, SCHOOL_NAME |-> name]

APRow(dbn, takers) == [DBN |-> dbn, AP_Test_Takers |-> takers]

GradRow(dbn, cohort, demographic) ==
    [DBN |-> dbn, Cohort |-> cohort, Demographic |-> demographic]

ClassSizeRow(csd, code, grade, program, size) ==
    [CSD |-> Num(csd), SCHOOL_CODE |-> Str(code), GRADE |-> grade,
     PROGRAM_TYPE |-> program, AVERAGE_CLASS_SIZE |-> size]

DemoRow(dbn, year) == [DBN |-> dbn, schoolyear |-> Num(year)]

SurveyRow(dbn, saf) == [dbn |-> Str(dbn), saf_s_11 |-> saf, schoolname |-> Str(<<"P", "S">>)]

DirRow(dbn, loc) == [dbn |-> Str(dbn), Location_1 |-> loc]

NoTables ==
    [ap_2010 |-> <<>>, class_size |-> <<>>, demographics |-> <<>>,
     graduation |-> <<>>, hs_directory |-> <<>>, sat_results |-> <<>>]

\* the state after the read-in cells, whatever the files hold
Start(tables, all, d75) ==
    /\ pc = "survey"
    /\ err = "none"
    /\ data = tables
    /\ all_survey = all
    /\ d75_survey = d75
    /\ class_size = <<>>
    /\ combined = <<>>

\* sequences over S of length at most n
SeqsUpTo(S, n) == UNION {[1..k -> S] : k \in 0..n}

M692 == <<"M", "6", "9", "2">>

K445 == <<"K", "4", "4", "5">>

SchoolCodes == {M692, K445}

SpecEd == Str(<<"S", "P", "E", "C", " ", "E", "D">>)

Grade09 == Str(<<"0", "9">>)

(* District codes, one class-size row each.                                *)
MaxCSD == 110

InitKey ==
    \E csd \in 0..MaxCSD, code \in SchoolCodes :
        Start([NoTables EXCEPT !.class_size =
                   <<ClassSizeRow(csd, code, GradeBand, GenEd, Num(20))>>],
              <<>>, <<>>)

SpecKey == InitKey /\ [][Next]_vars

(* The condensing cell run again on its own result.                        *)

\* cell In[5] run a second time: its first statements, on the condensed table
RerunFilterGrade == FilterGradeAt("done", GroupedColumns, "rerun_filtered")

\* the group-by statement alone, run on the condensed table
RerunGroupBy ==
    /\ pc = "done"
    /\ class_size' = GroupByMean(class_size)
    /\ pc' = "regrouped"
    /\ UNCHANGED <<err, data, all_survey, d75_survey, combined>>

NextCondense == Next \/ RerunFilterGrade \/ RerunGroupBy

(* Class-size tables of a few rows.                                        *)
MaxRows == 3

ClassSizeRows ==
    {ClassSizeRow(csd, M692, gp[1], gp[2], size) :
        csd \in {5, 10},
        gp \in {<<GradeBand, GenEd>>, <<GradeBand, SpecEd>>, <<Grade09, GenEd>>},
        size \in {Num(10), Num(20), NaN}}

InitCondense ==
    \E cs \in SeqsUpTo(ClassSizeRows, MaxRows) :
        Start([NoTables EXCEPT !.class_size = cs], <<>>, <<>>)

SpecCondense == InitCondense /\ [][NextCondense]_vars

(* SAT tables of a few rows, each section score a text or missing.         *)
MaxSatRows == 1

D1 == <<"0", "5", "M", "6", "9", "2">>

D2 == <<"1", "0", "K", "4", "4", "5">>

D3 == <<"0", "1", "M", "2", "9", "2">>

ScoreTexts ==
    {Str(<<"4", "0", "0">>), Str(<<"3", "9", "0">>), Str(<<"4", "1", "0">>),
     Str(<<"s">>), NaN}

SatRows ==
    {SatRow(D1, m, r, w, Str(<<"A">>)) :
        m \in ScoreTexts, r \in ScoreTexts, w \in ScoreTexts}

InitSat ==
    \E sat \in SeqsUpTo(SatRows, MaxSatRows) :
        Start([NoTables EXCEPT !.sat_results = sat], <<>>, <<>>)

SpecSat == InitSat /\ [][Next]_vars

(* Directory tables of one row, its location a few pieces of text put      *)
(* together, or missing.                                                   *)
MaxParts == 3

LocParts ==
    {<<"1", " ", "S", "T", " ">>,
     <<"(", "B", ")", " ">>,
     <<"(", "4", "0", ".", "6", "5", ",", " ", "-", "7", "3", ".", "9", ")">>,
     <<"(", "4", ",", "7", ")">>,
     <<",", " ">>,
     <<"N", "Y">>}

RECURSIVE Flatten(_)
Flatten(ss) == IF ss = <<>> THEN <<>> ELSE Head(ss) \o Flatten(Tail(ss))

Locations ==
    {NaN} \cup {Str(Flatten(ps)) : ps \in SeqsUpTo(LocParts, MaxParts)}

InitLoc ==
    \E loc \in Locations :
        Start([NoTables EXCEPT !.hs_directory = <<DirRow(D1, loc)>>], <<>>, <<>>)

SpecLoc == InitLoc /\ [][Next]_vars

(* Whole runs: three schools, each table one of a few contents.           *)
M292 == <<"M", "2", "9", "2">>

Text400 == Str(<<"4", "0", "0">>)

Text390 == Str(<<"3", "9", "0">>)

Text410 == Str(<<"4", "1", "0">>)

TextS == Str(<<"s">>)

GoodLocation ==
    Str(<<"1", " ", "S", "T", " ", "(", "4", "0", ".", "6", "5", ",", " ",
          "-", "7", "3", ".", "9", ")">>)

\* the concatenation of the rows each school contributes
SatTables ==
    {r1 \o r2 \o r3 :
        r1 \in {<<>>, <<SatRow(D1, Text400, Text390, Text410, Str(<<"A">>))>>},
        r2 \in {<<>>, <<SatRow(D2, Text390, Text390, Text410, NaN)>>,
                <<SatRow(D2, TextS, Text390, Text410, NaN)>>},
        r3 \in {<<SatRow(D3, Text410, Text390, Text410, Str(<<"C">>))>>,
                <<SatRow(D3, TextS, Text390, Text410, Str(<<"C">>))>>}}

APTables ==
    {<<>>,
     <<APRow(D1, Str(<<"4">>))>>,
     <<APRow(D1, Str(<<"4">>)), APRow(D2, TextS), APRow(D3, Str(<<"8">>))>>,
     <<APRow(D1, Str(<<"4">>)), APRow(D1, Str(<<"8">>))>>}

Cohort2005 == Str(<<"2", "0", "0", "5">>)

Male == Str(<<"M", "a", "l", "e">>)

GradTables ==
    {<<GradRow(D1, Cohort2006, TotalCohort), GradRow(D1, Cohort2006, Male),
       GradRow(D2, Cohort2005, TotalCohort)>>,
     <<GradRow(D1, Cohort2006, TotalCohort), GradRow(D2, Cohort2006, TotalCohort),
       GradRow(D3, Cohort2006, TotalCohort)>>}

ClassSizeTables ==
    {<<ClassSizeRow(5, M692, GradeBand, GenEd, Num(10)),
       ClassSizeRow(5, M692, GradeBand, GenEd, Num(20)),
       ClassSizeRow(10, K445, GradeBand, GenEd, Num(20)),
       ClassSizeRow(1, M292, GradeBand, GenEd, NaN)>>,
     <<ClassSizeRow(5, M692, GradeBand, GenEd, Num(10)),
       ClassSizeRow(10, K445, GradeBand, SpecEd, Num(20)),
       ClassSizeRow(1, M292, GradeBand, GenEd, Num(20))>>,
     <<ClassSizeRow(10, K445, GradeBand, GenEd, Num(20)),
       ClassSizeRow(10, K445, Grade09, GenEd, Num(10))>>}

PriorYear == 20102011

DemoTables ==
    {<<DemoRow(D1, PriorYear), DemoRow(D1, SchoolYear), DemoRow(D2, SchoolYear),
       DemoRow(D3, SchoolYear)>>,
     <<DemoRow(D1, SchoolYear), DemoRow(D2, PriorYear), DemoRow(D3, SchoolYear)>>}

AllSurveyTables ==
    {<<SurveyRow(D1, Num(6)), SurveyRow(D2, Num(7)), SurveyRow(D3, NaN)>>,
     <<SurveyRow(D2, Num(7)), SurveyRow(D3, NaN)>>}

D75SurveyTables == {<<>>, <<SurveyRow(D1, Num(8))>>}

DirTables ==
    {<<DirRow(D1, GoodLocation), DirRow(D2, GoodLocation), DirRow(D3, GoodLocation)>>,
     <<DirRow(D1, GoodLocation), DirRow(D2, GoodLocation)>>}

Init ==
    \E sat \in SatTables, ap \in APTables, grad \in GradTables,
       cs \in ClassSizeTables, demo \in DemoTables,
       all \in AllSurveyTables, d75 \in D75SurveyTables, hs \in DirTables :
        Start([ap_2010 |-> ap, class_size |-> cs, demographics |-> demo,
               graduation |-> grad, hs_directory |-> hs, sat_results |-> sat],
              all, d75)

Spec == Init /\ [][Next]_vars

---------------------------------------------------------------------------
(* Properties.                                                             *)

\* C8: pad_csd gives a two-character string, "0" and the digit, for a district
\* code whose string form has one character, and the string form unchanged
\* otherwise (5 -> "05", 10 -> "10", 1 -> "01"); the class-size DBN is the
\* padded code followed by the school code (5 and "M692" give "05M692").
C8_PadCsd ==
    \A i \in 1..Len(data["class_size"]) :
        LET r == data["class_size"][i]
        IN  "padded_csd" \in DOMAIN r =>
              LET num == r["CSD"].n
                  p == r["padded_csd"].s
              IN  /\ num < 10 => Len(p) = 2 /\ p[1] = "0" /\ DigitVal(p[2]) = num
                  /\ num >= 10 =>
                        /\ \A j \in 1..Len(p) : IsDigit(p[j])
                        /\ p[1] # "0"
                        /\ DigitsVal(p) = num
                  /\ num = 5 => p = <<"0", "5">>
                  /\ num = 10 => p = <<"1", "0">>
                  /\ num = 1 => p = <<"0", "1">>
                  /\ "DBN" \in DOMAIN r =>
                        /\ r["DBN"] = p \o r["SCHOOL_CODE"].s
                        /\ (num = 5 /\ r["SCHOOL_CODE"].s = M692) =>
                              r["DBN"] = <<"0", "5", "M", "6", "9", "2">>

\* C8 witness: district code 5 and school code "M692" have been made a DBN
C8_Witness ==
    \E i \in 1..Len(data["class_size"]) :
        LET r == data["class_size"][i]
        IN  /\ {"padded_csd", "DBN"} \subseteq DOMAIN r
            /\ r["CSD"] = Num(5)
            /\ r["DBN"] = <<"0", "5", "M", "6", "9", "2">>

\* the product of the denominators of the cells of `cells` at the positions S
RECURSIVE DenProd(_, _)
DenProd(cells, S) ==
    IF S = {} THEN 1
    ELSE LET i == CHOOSE x \in S : TRUE
         IN  cells[i].d * DenProd(cells, S \ {i})

\* the sum of the cells at the positions S, times L (a multiple of every
\* denominator)
RECURSIVE ScaledSum(_, _, _)
ScaledSum(cells, S, L) ==
    IF S = {} THEN 0
    ELSE LET i == CHOOSE x \in S : TRUE
         IN  cells[i].n * (L \div cells[i].d) + ScaledSum(cells, S \ {i}, L)

\* m is the arithmetic mean of the non-missing cells among those at the
\* positions S: missing when there is none, else m * count = sum
IsMeanOf(m, cells, S) ==
    LET present == {i \in S : IsNum(cells[i])}
        L == DenProd(cells, present)
    IN  IF present = {} THEN IsNaN(m)
        ELSE /\ IsNum(m)
             /\ m.n * L * Cardinality(present) = m.d * ScaledSum(cells, present, L)

\* the rows of the keyed class-size table that qualify for the DBN
Qualifying(raw, dbn) ==
    {i \in 1..Len(raw) :
        /\ raw[i]["DBN"] = dbn
        /\ raw[i]["GRADE"] = GradeBand
        /\ raw[i]["PROGRAM_TYPE"] = GenEd}

C10_Step ==
    pc = "group_by" =>
        LET raw == data["class_size"]
            out == data'["class_size"]
        IN  /\ \A dbn \in DBNs(raw) \cup DBNs(out) :
                  Cardinality({j \in 1..Len(out) : out[j]["DBN"] = dbn})
                      = IF Qualifying(raw, dbn) # {} THEN 1 ELSE 0
            /\ \A j \in 1..Len(out) :
                  /\ DOMAIN out[j] = {"DBN", "CSD", "AVERAGE_CLASS_SIZE"}
                  /\ \A c \in {"CSD", "AVERAGE_CLASS_SIZE"} :
                        IsMeanOf(out[j][c], Column(raw, c),
                                 Qualifying(raw, out[j]["DBN"]))

\* C10: the group-by statement leaves in data["class_size"] exactly one row
\* for each DBN with at least one "09-12" / "GEN ED" row and none for any
\* other DBN, each numeric column of the row the arithmetic mean of the
\* column over those qualifying rows (missing values apart).
C10_CondensedClassSize == [][C10_Step]_vars

\* C10 witness: the condensed table is the single row of 05M692 with the mean
\* 15 of the class sizes 10 and 20
C10_Witness ==
    /\ pc = "filter_demographics"
    /\ Len(data["class_size"]) = 1
    /\ data["class_size"][1]["DBN"] = <<"0", "5", "M", "6", "9", "2">>
    /\ data["class_size"][1]["AVERAGE_CLASS_SIZE"] = Num(15)

\* C9 as stated: the condensing cell run a second time, on the condensed
\* table, succeeds and leaves the same table.
C9_AsStated ==
    /\ pc = "crashed" => err = "none"
    /\ pc \in {"rerun_filtered", "regrouped"} => class_size = data["class_size"]

\* C9 amended: the group-by mean run again on the condensed table gives the
\* same table, with at most one row per DBN; the grade filter run again on
\* it never succeeds: it raises KeyError, the aggregation having dropped
\* the GRADE column.
C9_RegroupIdempotent ==
    /\ pc = "regrouped" =>
          /\ class_size = data["class_size"]
          /\ \A i, j \in 1..Len(class_size) :
                class_size[i]["DBN"] = class_size[j]["DBN"] => i = j
    /\ pc # "rerun_filtered"
    /\ pc = "crashed" => err = "KeyError"

\* C9 witness: a condensed table of two schools has been grouped again
C9_Witness ==
    /\ pc = "regrouped"
    /\ Len(data["class_size"]) = 2
    /\ Len(class_size) = 2

\* a text that is a non-empty string of digits
IsDigitText(c) ==
    c.k = "str" /\ c.s # <<>> /\ \A i \in 1..Len(c.s) : IsDigit(c.s[i])

\* a text that holds a character no number has, or no text at all
IsUnparseable(c) ==
    \/ IsNaN(c)
    \/ c.k = "str" /\ (c.s = <<>> \/ \E i \in 1..Len(c.s) :
                                       ~IsDigit(c.s[i]) /\ c.s[i] \notin {"-", "+", ".", " "})

C7_Step ==
    /\ pc = "sat_numeric" =>
          \A i \in 1..Len(data["sat_results"]) : \A c \in SatCols :
              LET x == data["sat_results"][i][c]
                  y == data'["sat_results"][i][c]
              IN  /\ IsDigitText(x) => y = Num(DigitsVal(x.s))
                  /\ IsUnparseable(x) => IsNaN(y)
    /\ pc = "sat_score" =>
          \A i \in 1..Len(data["sat_results"]) :
              LET r == data["sat_results"][i]
                  score == data'["sat_results"][i]["sat_score"]
                  m == r["SAT_Math"]
                  v == r["SAT_Reading"]
                  w == r["SAT_Writing"]
              IN  IF IsNum(m) /\ IsNum(v) /\ IsNum(w)
                  THEN /\ IsNum(score)
                       /\ score.n * m.d * v.d * w.d
                            = score.d * (m.n * v.d * w.d + v.n * m.d * w.d
                                         + w.n * m.d * v.d)
                  ELSE IsNaN(score)

\* C7: the coercion turns a text of digits into its number and an unparseable
\* or missing text into a missing value, and sat_score is then the sum of the
\* three coerced section scores when all three are present and missing
\* otherwise (never a partial sum, never zero).
C7_SatScore == [][C7_Step]_vars

\* C7 witness: the sections "400", "390" and "410" have been summed to 1200
C7_Witness ==
    /\ pc = "find_lat"
    /\ \E i \in 1..Len(data["sat_results"]) :
          /\ data["sat_results"][i]["SAT_Math"] = Num(400)
          /\ data["sat_results"][i]["sat_score"] = Num(1200)

\* C5 as stated: no text of a location makes the feature-deriving cell raise;
\* a location text without a "(x, y)" pair gets missing coordinates and the
\* script goes on to the merge.
C5_AsStated ==
    (\A i \in 1..Len(data["hs_directory"]) :
        data["hs_directory"][i]["Location_1"].k = "str")
    => /\ pc # "crashed"
       /\ err = "none"
       /\ pc = "filter_grade" =>
             \A i \in 1..Len(data["hs_directory"]) :
                 LET r == data["hs_directory"][i]
                 IN  FindAllFirst(r["Location_1"].s) = <<>>
                         => IsNaN(r["lat"]) /\ IsNaN(r["lon"])

\* the coordinate texts of the inputs
LatText == <<"4", "0", ".", "6", "5">>

LonText == <<"-", "7", "3", ".", "9">>

PairText == <<"(">> \o LatText \o <<",", " ">> \o LonText \o <<")">>

\* the positions at which s holds the text p
Occurrences(s, p) ==
    {i \in 1..Len(s) : i + Len(p) - 1 <= Len(s) /\ SubSeq(s, i, i + Len(p) - 1) = p}

\* C6 as stated: a location that holds the pair "(40.65, -73.9)", wherever it
\* stands among other parenthesized groups, gets lat 40.65 and lon -73.9.
C6_AsStated ==
    pc = "filter_grade" =>
        \A i \in 1..Len(data["hs_directory"]) :
            LET r == data["hs_directory"][i]
            IN  (r["Location_1"].k = "str"
                 /\ Cardinality(Occurrences(r["Location_1"].s, PairText)) = 1)
                    => /\ r["lat"] = Frac(4065, 100)
                       /\ r["lon"] = Frac(-739, 10)

PostMerge == {"fillna_mean", "fillna_zero", "school_dist", "done"}

\* C1: the left joins keep exactly the DBNs of SAT Results; once the four
\* inner joins are done, the DBNs of the combined table are the SAT Results
\* DBNs that also occur in the condensed Class Size, the filtered
\* Demographics, Survey and HS Directory, whatever AP Results and Graduation
\* hold.
C1_JoinedDBNs ==
    /\ pc \in {"merge_graduation", "merge_class_size"} =>
          /\ DBNs(combined) = DBNs(data["sat_results"])
          /\ Len(combined) >= Len(data["sat_results"])
    /\ pc \in PostMerge =>
          DBNs(combined) =
              {d \in DBNs(data["sat_results"]) :
                  \A m \in {"class_size", "demographics", "survey", "hs_directory"} :
                      d \in DBNs(data[m])}

\* C1 witness: a SAT school without a class-size row has been dropped, and a
\* school without an AP row is in the final table
C1_Witness ==
    /\ pc = "done"
    /\ DBNs(data["sat_results"]) \ DBNs(data["class_size"]) # {}
    /\ DBNs(combined) \ DBNs(data["ap_2010"]) # {}

OneRowPerDBN(t) == \A i, j \in 1..Len(t) : t[i]["DBN"] = t[j]["DBN"] => i = j

\* C4 as stated: when the merge starts, every table that enters it has at most
\* one row per DBN.
C4_AsStated ==
    pc = "merge_ap" => \A name \in DOMAIN data : OneRowPerDBN(data[name])

\* a row of combined' is a row of the left table, its new columns those of a
\* right row of the same DBN, or all missing when there is none
MergedFrom(row, left, right, cols) ==
    /\ \E i \in 1..Len(left) : \A c \in DOMAIN left[i] : row[c] = left[i][c]
    /\ \/ \E j \in 1..Len(right) :
              right[j]["DBN"] = row["DBN"] /\ \A c \in cols : row[c] = right[j][c]
       \/ row["DBN"] \notin DBNs(right) /\ \A c \in cols : IsNaN(row[c])

C2_Step ==
    /\ pc = "merge_ap" =>
          \A i \in 1..Len(combined') :
              MergedFrom(combined'[i], data["sat_results"], data["ap_2010"],
                         {"AP_Test_Takers"})
    /\ pc = "merge_graduation" =>
          \A i \in 1..Len(combined') :
              MergedFrom(combined'[i], combined, data["graduation"],
                         {"Cohort", "Demographic"})
    /\ pc \in {"merge_class_size", "merge_demographics", "merge_survey",
               "merge_hs_directory"} =>
          \A i \in 1..Len(combined') :
              \E j \in 1..Len(combined) :
                  \A c \in DOMAIN combined[j] : combined'[i][c] = combined[j][c]
    /\ pc = "fillna_mean" =>
          /\ Len(combined') = Len(combined)
          /\ \A i \in 1..Len(combined) :
                /\ DOMAIN combined'[i] = DOMAIN combined[i]
                /\ combined'[i]["DBN"] = combined[i]["DBN"]
                /\ \A c \in DOMAIN combined[i] \ {"DBN"} :
                      LET col == Column(combined, c)
                      IN  IF /\ IsNaN(combined[i][c])
                             /\ \A j \in 1..Len(col) : col[j].k # "str"
                             /\ \E j \in 1..Len(col) : IsNum(col[j])
                          THEN /\ IsNum(combined'[i][c])
                               /\ IsMeanOf(combined'[i][c], col, 1..Len(col))
                          ELSE combined'[i][c] = combined[i][c]

\* C2: no join fills a missing value in; the one statement after the six
\* joins replaces every missing cell of a numeric column of the combined
\* table by the mean of the non-missing cells of that column over the rows
\* of the joined table, and changes nothing else.
C2_ImputeAfterJoins == [][C2_Step]_vars

\* C2 witness: a SAT row with a score has been dropped by an inner join, and
\* a school whose score was missing now has one
C2_Witness ==
    /\ pc = "fillna_zero"
    /\ \E j \in 1..Len(data["sat_results"]) :
          /\ IsNum(data["sat_results"][j]["sat_score"])
          /\ data["sat_results"][j]["DBN"] \notin DBNs(combined)
    /\ \E i \in 1..Len(combined) : \E j \in 1..Len(data["sat_results"]) :
          /\ data["sat_results"][j]["DBN"] = combined[i]["DBN"]
          /\ IsNaN(data["sat_results"][j]["sat_score"])
          /\ IsNum(combined[i]["sat_score"])

\* C3 as stated: the zero fill leaves 0 in every row of a column that holds no
\* number, and no missing cell.
C3_AsStated ==
    [][pc = "fillna_zero" =>
          \A c \in CellColumns(combined) :
              (\A i \in 1..Len(combined) : ~IsNum(combined[i][c]))
                  => \A i \in 1..Len(combined') : combined'[i][c] = Num(0)]_vars

C3_Step ==
    /\ pc = "fillna_mean" =>
          \A c \in CellColumns(combined) :
              (\A i \in 1..Len(combined) : IsNaN(combined[i][c]))
                  => \A i \in 1..Len(combined') : IsNaN(combined'[i][c])
    /\ pc = "fillna_zero" =>
          /\ Len(combined') = Len(combined)
          /\ \A i \in 1..Len(combined) : \A c \in DOMAIN combined[i] \ {"DBN"} :
                /\ IsNaN(combined[i][c]) => combined'[i][c] = Num(0)
                /\ ~IsNaN(combined[i][c]) => combined'[i][c] = combined[i][c]
                /\ ~IsNaN(combined'[i][c])
          /\ \A c \in CellColumns(combined) :
                (\A i \in 1..Len(combined) : IsNaN(combined[i][c]))
                    => \A i \in 1..Len(combined') : combined'[i][c] = Num(0)

\* C3 amended: after the mean fill and the zero fill no cell of the combined
\* table is missing; a column that was entirely missing holds 0 in every row;
\* in a column of strings only the missing cells become 0 and every string
\* stays as it was.
C3_ZeroFill == [][C3_Step]_vars

\* C3 witness: the AP column, entirely missing, is 0 in every row, and the
\* school-name column holds a name beside a 0
C3_Witness ==
    /\ pc = "school_dist"
    /\ combined # <<>>
    /\ \A i \in 1..Len(combined) : combined[i]["AP_Test_Takers"] = Num(0)
    /\ \E i, j \in 1..Len(combined) :
          /\ combined[i]["SCHOOL_NAME"].k = "str"
          /\ combined[j]["SCHOOL_NAME"] = Num(0)

====
